---- MODULE Spec2Model ----
(***************************************************************************)
(* The multi-source CNPJ lookup of consultarcnpj: identifier validation,   *)
(* the three provider adapters (CNPJ.A, ReceitaWS, MinhaReceita), the      *)
(* per-request race state of consultarCNPJ, the tax-regime consensus and   *)
(* the shared DOM targets (resultsDiv, loadingDiv) the handlers write to.  *)
(***************************************************************************)
EXTENDS Integers, Sequences, FiniteSets, TLC

(* ------------------------------ bounds -------------------------------- *)

\* Number of valid requests that may be in flight together.
MaxRequests == 2

Requests == 1..MaxRequests

(* ------------------------- program constants -------------------------- *)

TOTAL_APIS == 3

MAX_RETRIES_RECEITAWS == 3

MAX_RETRIES_MINHARECEITA == 2

Apis == {"CNPJA", "ReceitaWS", "MinhaReceita"}

(* ----------------------- identifiers (strings) ------------------------ *)

\* A string is a sequence of one-character strings.
Digits == {"0", "1", "2", "3", "4", "5", "6", "7", "8", "9"}

\* parseInt(c, 10) of one digit character
parseInt(c) ==
    CASE c = "0" -> 0 [] c = "1" -> 1 [] c = "2" -> 2 [] c = "3" -> 3
      [] c = "4" -> 4 [] c = "5" -> 5 [] c = "6" -> 6 [] c = "7" -> 7
      [] c = "8" -> 8 [] c = "9" -> 9

\* cnpj.replace(/[^0-9]/g, '')
limparCNPJ(cnpj) == SelectSeq(cnpj, LAMBDA c : c \in Digits)

\* cnpjLimpo.replace(/^(\d{2})(\d{3})(\d{3})(\d{4})(\d{2})$/, "$1.$2.$3/$4-$5")
formatarCNPJ(cnpj) ==
    LET d == limparCNPJ(cnpj) IN
    IF Len(d) = 14
    THEN SubSeq(d, 1, 2) \o <<".">> \o SubSeq(d, 3, 5) \o <<".">> \o
         SubSeq(d, 6, 8) \o <<"/">> \o SubSeq(d, 9, 12) \o <<"-">> \o
         SubSeq(d, 13, 14)
    ELSE d

\* /^(\d)\1+$/.test(s): at least two characters, all the same digit
AllSameDigit(s) ==
    /\ Len(s) >= 2
    /\ \A i \in 1..Len(s) : s[i] \in Digits /\ s[i] = s[1]

\* The loop  for (i = tamanho; i >= 1; i--) { soma += numeros[tamanho-i]*pos--;
\* if (pos < 2) pos = 9; }  started at index k (1-based) with weight pos.
RECURSIVE SomaLoop(_, _, _)
SomaLoop(numeros, k, pos) ==
    IF k > Len(numeros) THEN 0
    ELSE parseInt(numeros[k]) * pos
         + SomaLoop(numeros, k + 1, IF pos - 1 < 2 THEN 9 ELSE pos - 1)

\* soma % 11 < 2 ? 0 : 11 - (soma % 11)
Resultado(soma) == IF soma % 11 < 2 THEN 0 ELSE 11 - (soma % 11)

\* validarCNPJ that returns after comparing the first check digit only.
validarCNPJFirstDigitOnly(cnpj) ==
    LET cnpjLimpo == limparCNPJ(cnpj) IN
    IF Len(cnpjLimpo) # 14 \/ AllSameDigit(cnpjLimpo) THEN FALSE
    ELSE LET tamanho == Len(cnpjLimpo) - 2
             r1 == Resultado(SomaLoop(SubSeq(cnpjLimpo, 1, tamanho), 1, tamanho - 7))
         IN  r1 = parseInt(cnpjLimpo[tamanho + 1])

validarCNPJ(cnpj) ==
    LET cnpjLimpo == limparCNPJ(cnpj) IN
    IF Len(cnpjLimpo) # 14 \/ AllSameDigit(cnpjLimpo) THEN FALSE
    ELSE LET tamanho == Len(cnpjLimpo) - 2
             r1 == Resultado(SomaLoop(SubSeq(cnpjLimpo, 1, tamanho), 1, tamanho - 7))
             r2 == Resultado(SomaLoop(SubSeq(cnpjLimpo, 1, tamanho + 1), 1, tamanho + 1 - 7))
         IN  IF r1 # parseInt(cnpjLimpo[tamanho + 1]) THEN FALSE
             ELSE r2 = parseInt(cnpjLimpo[tamanho + 2])

\* What the user may type into the cnpjInput field.
RawInputs ==
    { <<>>,
      <<"a", "b">>,
      <<"1", "2", "3">>,
      <<"1","1","2","2","2","3","3","3","0","0","0","1","8","1">>,
      <<"1","1",".","2","2","2",".","3","3","3","/","0","0","0","1","-","8","1">>,
      <<"1","1","2","2","2","3","3","3","0","0","0","1","8","0">>,
      <<"1","1","2","2","2","3","3","3","0","0","0","1","7","1">>,
      <<"1","1","1","1","1","1","1","1","1","1","1","1","1","1">> }

\* Identifiers for the validator: two 12-digit stems with every pair of check
\* digits, the fourteen-fold repetition of every digit, and strings of 13 and
\* of 15 digits around a valid identifier, bare or with separators typed.
Stems ==
    { <<"1","1","2","2","2","3","3","3","0","0","0","1">>,
      <<"0","0","0","0","0","0","0","0","0","0","0","1">> }

ValidatorInputs ==
    { st \o <<d1, d2>> : st \in Stems, d1 \in Digits, d2 \in Digits }
    \cup { [i \in 1..14 |-> d] : d \in Digits }
    \cup { <<"1","1","2","2","2","3","3","3","0","0","0","1","8">>,
           <<"1","1","2","2","2","3","3","3","0","0","0","1","8","1","0">>,
           <<"1","1",".","2","2","2",".","3","3","3","/","0","0","0","1","-","8","1">>,
           <<"1","1","-","2","2","2","x","3","3","3","0","0","0","1","8","1"," ">>,
           <<"x","y">>, <<>> }

(* --------------------------- provider records ------------------------- *)

\* A decoded payload keeps its provider's native shape.  Every field the code
\* reads is present; "undef" stands for a missing field, "true"/"false" for
\* the JSON booleans.  api = "null" is the null (falsy) value.
Null ==
    [ api |-> "null",
      opcao_pelo_mei |-> "undef", opcao_pelo_simples |-> "undef", cnpj |-> "undef",
      simei_optante |-> "undef", simples_optante |-> "undef",
      simples_optant |-> "undef", status |-> "undef", uf |-> "undef",
      company_simei_optant |-> "undef", company_simples_optant |-> "undef",
      registrations |-> <<>>, address_state |-> "undef" ]

\* !data
Falsy(data) == data.api = "null"

UFs == {"SP", "RJ"}

\* Payloads of open.cnpja.com: company.simei.optant, company.simples.optant,
\* registrations, address.state.
CnpjaPayloads ==
    { [Null EXCEPT !.api = "CNPJA", !.company_simei_optant = o[1],
                   !.company_simples_optant = o[2], !.registrations = regs,
                   !.address_state = "SP"] :
        o \in { <<"true", "true">>, <<"false", "true">>,
                <<"false", "false">>, <<"undef", "undef">> },
        regs \in { <<>>, <<"RJ">> } }

\* Payloads of receitaws.com.br with status other than "ERROR":
\* simei.optante, simples.optante, (simples.optant), uf.
ReceitaWsPayloads ==
    { [Null EXCEPT !.api = "ReceitaWS", !.status = "OK", !.simei_optante = o[1],
                   !.simples_optante = o[2], !.simples_optant = o[3], !.uf = uf] :
        o \in { <<"true", "true", "undef">>, <<"false", "true", "undef">>,
                <<"false", "false", "undef">>, <<"false", "undef", "false">>,
                <<"undef", "undef", "undef">> },
        uf \in UFs }

\* The payload of receitaws.com.br that carries the embedded error status.
ReceitaWsErrorPayload == [Null EXCEPT !.api = "ReceitaWS", !.status = "ERROR"]

\* Payloads of minhareceita.org that carry a cnpj field:
\* opcao_pelo_mei, opcao_pelo_simples.
MinhaReceitaPayloads ==
    { [Null EXCEPT !.api = "MinhaReceita", !.cnpj = "present",
                   !.opcao_pelo_mei = o[1], !.opcao_pelo_simples = o[2]] :
        o \in { <<"true", "true">>, <<"false", "true">>,
                <<"false", "false">>, <<"undef", "undef">> } }

\* A decoded payload of minhareceita.org without a cnpj field.
MinhaReceitaInvalidPayload == [Null EXCEPT !.api = "MinhaReceita"]

(* ----------------------------- tax regime ----------------------------- *)

getTaxRegimeFromData(data) ==
    IF Falsy(data) THEN "Outros"
    ELSE IF \/ data.opcao_pelo_mei = "true"
            \/ data.simei_optante = "true"
            \/ data.company_simei_optant = "true"
         THEN "SIMEI"
    ELSE IF \/ data.opcao_pelo_simples = "true"
            \/ data.simples_optante = "true"
            \/ data.company_simples_optant = "true"
         THEN "Simples"
    ELSE IF \/ data.opcao_pelo_simples = "false"
            \/ data.simples_optant = "false"
            \/ data.company_simples_optant = "false"
         THEN "Normal"
    ELSE "Outros"

\* regimes.includes(x)
Includes(regimes, x) == \E i \in 1..Len(regimes) : regimes[i] = x

\* regimes.filter(r => r === x).length
CountOf(regimes, x) == Cardinality({i \in 1..Len(regimes) : regimes[i] = x})

\* The state object taxRegimeConsensus as declared by consultarCNPJ.
InitConsensus == [sources |-> <<>>, confirmed |-> "null", needsWarning |-> FALSE]

\* sources.map(s => s.regime)
RegimesOf(consensus) == [i \in 1..Len(consensus.sources) |-> consensus.sources[i].regime]

\* ConfirmedOf that takes the label of the latest vote.
ConfirmedOfLastVote(regimes) ==
    IF Len(regimes) = 0 THEN "Outros" ELSE regimes[Len(regimes)]

\* ConfirmedOf that tests Normal before SIMEI and Simples.
ConfirmedOfNormalFirst(regimes) ==
    IF Includes(regimes, "Normal") THEN "Normal"
    ELSE IF Includes(regimes, "SIMEI") THEN "SIMEI"
    ELSE IF Includes(regimes, "Simples") THEN "Simples"
    ELSE "Outros"

\* ConfirmedOf with the first two tests in the other order.
ConfirmedOfSimplesFirst(regimes) ==
    IF Includes(regimes, "Simples") THEN "Simples"
    ELSE IF Includes(regimes, "SIMEI") THEN "SIMEI"
    ELSE IF Includes(regimes, "Normal") THEN "Normal"
    ELSE "Outros"

\* Priority logic: SIMEI > Simples > Normal > Outros
ConfirmedOf(regimes) ==
    IF Includes(regimes, "SIMEI") THEN "SIMEI"
    ELSE IF Includes(regimes, "Simples") THEN "Simples"
    ELSE IF Includes(regimes, "Normal") THEN "Normal"
    ELSE "Outros"

\* NeedsWarningOf with a strict comparison.
NeedsWarningOfStrict(regimes, confirmed) ==
    LET votesForConfirmed == CountOf(regimes, confirmed)
        dissentingVotes == Len(regimes) - votesForConfirmed
    IN  votesForConfirmed < dissentingVotes

\* votesForConfirmed <= dissentingVotes
NeedsWarningOf(regimes, confirmed) ==
    LET votesForConfirmed == CountOf(regimes, confirmed)
        dissentingVotes == Len(regimes) - votesForConfirmed
    IN  votesForConfirmed <= dissentingVotes

\* getTaxRegimeInfo without the || 'Trib: Outros' fallback.
getTaxRegimeInfoNoFallback(consensus) ==
    [ text |-> CASE consensus.confirmed = "SIMEI" -> "S I M E I"
                 [] consensus.confirmed = "Simples" -> "Simples"
                 [] consensus.confirmed = "Normal" -> "Trib: Normal"
                 [] consensus.confirmed = "Outros" -> "Trib: Outros"
                 [] OTHER -> "undefined",
      icon |-> consensus.needsWarning ]

\* The text of the tax-regime bar: regimeMap[confirmed] || 'Trib: Outros',
\* followed by the warning icon when needsWarning.
getTaxRegimeInfo(consensus) ==
    [ text |-> CASE consensus.confirmed = "SIMEI" -> "S I M E I"
                 [] consensus.confirmed = "Simples" -> "Simples"
                 [] consensus.confirmed = "Normal" -> "Trib: Normal"
                 [] OTHER -> "Trib: Outros",
      icon |-> consensus.needsWarning ]

(* ------------------------ the shared DOM targets ---------------------- *)

NoIE == [content |-> "absent", registrations |-> <<>>, mainState |-> "undef"]

\* resultsDiv.innerHTML = ''
EmptyDiv ==
    [ kind |-> "empty", msg |-> "", src |-> "none", by |-> 0,
      tax |-> [text |-> "", icon |-> FALSE], warning |-> FALSE,
      ieContainer |-> FALSE, ie |-> NoIE ]

\* The markup of one company card.  src: the provider whose record filled it;
\* by: the request that rendered it; tax: the .tax-regime-bar element;
\* warning: whether #card-warning-message-container holds the preliminary
\* notice; ieContainer: whether the card has an #ie-card-container element;
\* ie: the state-registration block.
Card(src, r, tax, hasContainer, ie) ==
    [ kind |-> "card", msg |-> "", src |-> src, by |-> r, tax |-> tax,
      warning |-> FALSE, ieContainer |-> hasContainer, ie |-> ie ]

\* gerarIEHTML(registrations, mainState): '' for an empty list
gerarIEHTML(registrations, mainState) ==
    IF Len(registrations) = 0 THEN NoIE
    ELSE [content |-> "list", registrations |-> registrations, mainState |-> mainState]

\* The placeholder with the mini-spinner inside #ie-card-container.
SpinnerIE == [content |-> "spinner", registrations |-> <<>>, mainState |-> "undef"]

\* 'Nenhuma Inscricao Estadual encontrada.'
NoneFoundIE == [content |-> "none", registrations |-> <<>>, mainState |-> "undef"]

\* A world is what one handler call reads and writes: the closure state ctx of
\* its request r, the two shared DOM targets, and the log of what the request
\* sent to the render sink.
Emit(w, e) == [w EXCEPT !.events = Append(@, e)]

Event(type, api, flag, tax) == [type |-> type, api |-> api, flag |-> flag, tax |-> tax]

NoTax == [text |-> "", icon |-> FALSE]

mostrarErro(w, mensagem) ==
    [w EXCEPT !.resultsDiv = [EmptyDiv EXCEPT !.kind = "error", !.msg = mensagem]]

addWarningMessage(w) ==
    IF w.resultsDiv.kind = "card"
    THEN [w EXCEPT !.resultsDiv.warning = TRUE]
    ELSE w

renderCardFromReceitaWS(w, r, data) ==
    [w EXCEPT !.resultsDiv =
        Card("ReceitaWS", r, getTaxRegimeInfo(w.ctx.taxRegimeConsensus), TRUE, SpinnerIE)]

renderCardFromCNPJA(w, r, data) ==
    [w EXCEPT !.resultsDiv =
        Card("CNPJA", r, getTaxRegimeInfo(w.ctx.taxRegimeConsensus), FALSE,
             gerarIEHTML(data.registrations, data.address_state))]

renderCardFromMinhaReceita(w, r, data) ==
    [w EXCEPT !.resultsDiv =
        Card("MinhaReceita", r, getTaxRegimeInfo(w.ctx.taxRegimeConsensus), TRUE, SpinnerIE)]

updateCardWithIEData(w, cnpjaData, mainState) ==
    IF ~ w.resultsDiv.ieContainer THEN w
    ELSE IF ~ Falsy(cnpjaData) /\ Len(cnpjaData.registrations) > 0
         THEN [w EXCEPT !.resultsDiv.ie = gerarIEHTML(cnpjaData.registrations, mainState)]
         ELSE [w EXCEPT !.resultsDiv.ie = NoneFoundIE]

updateTaxRegimeDisplay(w) ==
    IF w.resultsDiv.kind # "card" THEN w
    ELSE [w EXCEPT !.resultsDiv.tax = getTaxRegimeInfo(w.ctx.taxRegimeConsensus)]

(* ------------------- the closure state of one request ----------------- *)

\* No request: the closure variables of consultarCNPJ do not exist.
NoCtx ==
    [ live |-> FALSE, cnpjaDataCache |-> Null, receitaWsDataCache |-> Null,
      minhaReceitaDataCache |-> Null, hasRendered |-> FALSE, failedApiCount |-> 0,
      taxRegimeConsensus |-> InitConsensus ]

\* let cnpjaDataCache = null; ... let taxRegimeConsensus = {...}
NewCtx == [NoCtx EXCEPT !.live = TRUE]

\* updateTaxConsensus without the final if (hasRendered) updateTaxRegimeDisplay().
updateTaxConsensusNoDisplay(w, apiName, data) ==
    LET regime == getTaxRegimeFromData(data)
        sources == Append(w.ctx.taxRegimeConsensus.sources, [api |-> apiName, regime |-> regime])
        regimes == [i \in 1..Len(sources) |-> sources[i].regime]
        confirmed == ConfirmedOf(regimes)
    IN  [w EXCEPT !.ctx.taxRegimeConsensus =
            [ sources |-> sources, confirmed |-> confirmed,
              needsWarning |-> NeedsWarningOf(regimes, confirmed) ]]

\* updateTaxConsensus that keeps confirmed and needsWarning once they are set.
updateTaxConsensusLocked(w, apiName, data) ==
    LET regime == getTaxRegimeFromData(data)
        old == w.ctx.taxRegimeConsensus
        sources == Append(old.sources, [api |-> apiName, regime |-> regime])
        regimes == [i \in 1..Len(sources) |-> sources[i].regime]
        confirmed == IF old.confirmed # "null" THEN old.confirmed ELSE ConfirmedOf(regimes)
        w1 == [w EXCEPT !.ctx.taxRegimeConsensus =
                  [ sources |-> sources, confirmed |-> confirmed,
                    needsWarning |-> IF old.confirmed # "null" THEN old.needsWarning
                                     ELSE NeedsWarningOf(regimes, confirmed) ]]
    IN  IF w1.ctx.hasRendered
        THEN Emit(updateTaxRegimeDisplay(w1),
                  Event("ConsensusUpdated", apiName, w1.resultsDiv.kind = "card",
                        getTaxRegimeInfo(w1.ctx.taxRegimeConsensus)))
        ELSE w1

updateTaxConsensus(w, apiName, data) ==
    LET regime == getTaxRegimeFromData(data)
        sources == Append(w.ctx.taxRegimeConsensus.sources, [api |-> apiName, regime |-> regime])
        regimes == [i \in 1..Len(sources) |-> sources[i].regime]
        confirmed == ConfirmedOf(regimes)
        w1 == [w EXCEPT !.ctx.taxRegimeConsensus =
                  [ sources |-> sources, confirmed |-> confirmed,
                    needsWarning |-> NeedsWarningOf(regimes, confirmed) ]]
    IN  IF w1.ctx.hasRendered
        THEN Emit(updateTaxRegimeDisplay(w1),
                  Event("ConsensusUpdated", apiName, w1.resultsDiv.kind = "card",
                        getTaxRegimeInfo(w1.ctx.taxRegimeConsensus)))
        ELSE w1

\* handleFailure that compares the counter with >= 2.
handleFailureAtLeastTwo(w, apiName) ==
    LET w1 == [w EXCEPT !.ctx.failedApiCount = @ + 1] IN
    IF w1.ctx.failedApiCount >= 2
    THEN Emit(mostrarErro([w1 EXCEPT !.loadingDiv = "none"], "Todas as fontes de dados falharam."),
              Event("AllSourcesFailed", apiName, FALSE, NoTax))
    ELSE w1

\* handleFailure that compares the counter with TOTAL_APIS - 1.
handleFailureOffByOne(w, apiName) ==
    LET w1 == [w EXCEPT !.ctx.failedApiCount = @ + 1] IN
    IF w1.ctx.failedApiCount = TOTAL_APIS - 1
    THEN Emit(mostrarErro([w1 EXCEPT !.loadingDiv = "none"], "Todas as fontes de dados falharam."),
              Event("AllSourcesFailed", apiName, FALSE, NoTax))
    ELSE w1

handleFailure(w, apiName) ==
    LET w1 == [w EXCEPT !.ctx.failedApiCount = @ + 1] IN
    IF w1.ctx.failedApiCount = TOTAL_APIS
    THEN Emit(mostrarErro([w1 EXCEPT !.loadingDiv = "none"], "Todas as fontes de dados falharam."),
              Event("AllSourcesFailed", apiName, FALSE, NoTax))
    ELSE w1

\* The InitialRender event of a full render just written to resultsDiv.
RenderEvent(w, apiName) ==
    Event("InitialRender", apiName, w.resultsDiv.warning, w.resultsDiv.tax)

\* The SupplementaryUpdate event of a call of updateCardWithIEData; flag tells
\* whether an #ie-card-container was there to take it.
MergeEvent(w, apiName) ==
    Event("SupplementaryUpdate", apiName, w.resultsDiv.ieContainer, NoTax)

\* handleCnpjaResponse that does not merge into the card of ReceitaWS.
handleCnpjaResponseNoMerge(w, r, data) ==
    IF Falsy(data) THEN handleFailure(w, "CNPJA")
    ELSE LET w1 == updateTaxConsensus([w EXCEPT !.ctx.cnpjaDataCache = data], "CNPJA", data) IN
         IF ~ Falsy(w1.ctx.receitaWsDataCache)
         THEN w1
         ELSE IF ~ w1.ctx.hasRendered
         THEN LET w2 == renderCardFromCNPJA(
                           [w1 EXCEPT !.loadingDiv = "none", !.ctx.hasRendered = TRUE], r, data)
              IN  Emit(w2, RenderEvent(w2, "CNPJA"))
         ELSE w1

\* handleCnpjaResponse without the fallback render: it only merges.
handleCnpjaResponseMergeOnly(w, r, data) ==
    IF Falsy(data) THEN handleFailure(w, "CNPJA")
    ELSE LET w1 == updateTaxConsensus([w EXCEPT !.ctx.cnpjaDataCache = data], "CNPJA", data) IN
         IF ~ Falsy(w1.ctx.receitaWsDataCache)
         THEN Emit(updateCardWithIEData(w1, w1.ctx.cnpjaDataCache, w1.ctx.receitaWsDataCache.uf),
                   MergeEvent(w1, "CNPJA"))
         ELSE w1

\* handleCnpjaResponse that applies the render decision first and votes last.
handleCnpjaResponseRenderFirst(w, r, data) ==
    IF Falsy(data) THEN handleFailure(w, "CNPJA")
    ELSE LET w1 == [w EXCEPT !.ctx.cnpjaDataCache = data] IN
         IF ~ Falsy(w1.ctx.receitaWsDataCache)
         THEN updateTaxConsensus(
                  Emit(updateCardWithIEData(w1, w1.ctx.cnpjaDataCache, w1.ctx.receitaWsDataCache.uf),
                       MergeEvent(w1, "CNPJA")), "CNPJA", data)
         ELSE IF ~ w1.ctx.hasRendered
         THEN LET w2 == renderCardFromCNPJA(
                           [w1 EXCEPT !.loadingDiv = "none", !.ctx.hasRendered = TRUE], r, data)
              IN  updateTaxConsensus(Emit(w2, RenderEvent(w2, "CNPJA")), "CNPJA", data)
         ELSE updateTaxConsensus(w1, "CNPJA", data)

handleCnpjaResponse(w, r, data) ==
    IF Falsy(data) THEN handleFailure(w, "CNPJA")
    ELSE LET w1 == updateTaxConsensus([w EXCEPT !.ctx.cnpjaDataCache = data], "CNPJA", data) IN
         IF ~ Falsy(w1.ctx.receitaWsDataCache)
         THEN Emit(updateCardWithIEData(w1, w1.ctx.cnpjaDataCache, w1.ctx.receitaWsDataCache.uf),
                   MergeEvent(w1, "CNPJA"))
         ELSE IF ~ w1.ctx.hasRendered
         THEN LET w2 == renderCardFromCNPJA(
                           [w1 EXCEPT !.loadingDiv = "none", !.ctx.hasRendered = TRUE], r, data)
              IN  Emit(w2, RenderEvent(w2, "CNPJA"))
         ELSE w1

\* handleMinhaReceitaResponse without the !hasRendered test.
handleMinhaReceitaResponseNoRenderedTest(w, r, data) ==
    IF Falsy(data) THEN handleFailure(w, "MinhaReceita")
    ELSE LET w1 == updateTaxConsensus([w EXCEPT !.ctx.minhaReceitaDataCache = data],
                                      "MinhaReceita", data) IN
         IF Falsy(w1.ctx.receitaWsDataCache)
         THEN LET w2 == addWarningMessage(renderCardFromMinhaReceita(
                           [w1 EXCEPT !.loadingDiv = "none", !.ctx.hasRendered = TRUE], r, data))
              IN  Emit(w2, RenderEvent(w2, "MinhaReceita"))
         ELSE w1

handleMinhaReceitaResponse(w, r, data) ==
    IF Falsy(data) THEN handleFailure(w, "MinhaReceita")
    ELSE LET w1 == updateTaxConsensus([w EXCEPT !.ctx.minhaReceitaDataCache = data],
                                      "MinhaReceita", data) IN
         IF Falsy(w1.ctx.receitaWsDataCache) /\ ~ w1.ctx.hasRendered
         THEN LET w2 == addWarningMessage(renderCardFromMinhaReceita(
                           [w1 EXCEPT !.loadingDiv = "none", !.ctx.hasRendered = TRUE], r, data))
              IN  Emit(w2, RenderEvent(w2, "MinhaReceita"))
         ELSE w1

\* handleReceitaWsResponse that only merges when a card is already shown.
handleReceitaWsResponseMergeOnly(w, r, data) ==
    IF Falsy(data) THEN handleFailure(w, "ReceitaWS")
    ELSE LET rendered == w.ctx.hasRendered
             w1 == updateTaxConsensus(
                       [w EXCEPT !.loadingDiv = "none", !.ctx.hasRendered = TRUE,
                                 !.ctx.receitaWsDataCache = data], "ReceitaWS", data)
             w2 == IF rendered THEN w1 ELSE renderCardFromReceitaWS(w1, r, data)
             w3 == IF rendered THEN w2 ELSE Emit(w2, RenderEvent(w2, "ReceitaWS"))
         IN  Emit(updateCardWithIEData(w3, w3.ctx.cnpjaDataCache, w3.ctx.receitaWsDataCache.uf),
                  MergeEvent(w3, "ReceitaWS"))

\* handleReceitaWsResponse that highlights by CNPJ.A's own address.state.
handleReceitaWsResponseWrongState(w, r, data) ==
    IF Falsy(data) THEN handleFailure(w, "ReceitaWS")
    ELSE LET w1 == updateTaxConsensus(
                       [w EXCEPT !.loadingDiv = "none", !.ctx.hasRendered = TRUE,
                                 !.ctx.receitaWsDataCache = data], "ReceitaWS", data)
             w2 == renderCardFromReceitaWS(w1, r, data)
             w3 == Emit(w2, RenderEvent(w2, "ReceitaWS"))
         IN  Emit(updateCardWithIEData(w3, w3.ctx.cnpjaDataCache, w3.ctx.cnpjaDataCache.address_state),
                  MergeEvent(w3, "ReceitaWS"))

handleReceitaWsResponse(w, r, data) ==
    IF Falsy(data) THEN handleFailure(w, "ReceitaWS")
    ELSE LET w1 == updateTaxConsensus(
                       [w EXCEPT !.loadingDiv = "none", !.ctx.hasRendered = TRUE,
                                 !.ctx.receitaWsDataCache = data], "ReceitaWS", data)
             w2 == renderCardFromReceitaWS(w1, r, data)
             w3 == Emit(w2, RenderEvent(w2, "ReceitaWS"))
         IN  Emit(updateCardWithIEData(w3, w3.ctx.cnpjaDataCache, w3.ctx.receitaWsDataCache.uf),
                  MergeEvent(w3, "ReceitaWS"))

(* -------------------------------- state ------------------------------- *)

VARIABLES
    cnpjInput,   \* value of the #cnpjInput field
    resultsDiv,  \* content of #resultsDiv
    loadingDiv,  \* loadingDiv.style.display
    nreq,        \* number of requests that passed validation so far
    ctx,         \* ctx[r]: the closure variables of request r
    adapter,     \* adapter[r][api]: where the provider query of request r stands
    events,      \* events[r]: what request r has sent to the render sink
    lastOp       \* the operation that produced the current state

vars == <<cnpjInput, resultsDiv, loadingDiv, nreq, ctx, adapter, events, lastOp>>

\* pc: "idle" (not started), "fetch" (awaiting the fetch of attempt `attempt`),
\* "delay" (awaiting delay(RETRY_DELAY_MS)), "resolved" (the promise resolved
\* with `result`), "rejected" (an exception left the async function),
\* "handled" (the .then handler has run).
IdleAdapter == [pc |-> "idle", attempt |-> 0, delays |-> 0, result |-> Null]

Op(op, r, api, kind) == [op |-> op, r |-> r, api |-> api, kind |-> kind, body |-> Null]

\* A fetch of adapter api of request r came back; body is what it decoded to.
FetchOp(r, api, kind, body) == [Op("fetch", r, api, kind) EXCEPT !.body = body]

Init ==
    /\ cnpjInput = <<>>
    /\ resultsDiv = EmptyDiv
    /\ loadingDiv = "none"
    /\ nreq = 0
    /\ ctx = [r \in Requests |-> NoCtx]
    /\ adapter = [r \in Requests |-> [a \in Apis |-> IdleAdapter]]
    /\ events = [r \in Requests |-> <<>>]
    /\ lastOp = Op("load", 0, "none", "none")

(* ------------------------------- the user ----------------------------- *)

\* The 'input' listener of #cnpjInput: the field holds the masked value.
\* The user types ahead of the submission that would become request r.
TypeInput(r) ==
    /\ r = nreq + 1
    /\ \E raw \in RawInputs : cnpjInput' = formatarCNPJ(raw)
    /\ lastOp' = Op("input", 0, "none", "none")
    /\ UNCHANGED <<resultsDiv, loadingDiv, nreq, ctx, adapter, events>>

\* The same 'input' listener, with the identifiers of ValidatorInputs typed.
TypeIdentifier(r) ==
    /\ r = nreq + 1
    /\ \E raw \in ValidatorInputs : cnpjInput' = formatarCNPJ(raw)
    /\ lastOp' = Op("input", 0, "none", "none")
    /\ UNCHANGED <<resultsDiv, loadingDiv, nreq, ctx, adapter, events>>

\* consultarCNPJ with && in place of || in the validation test.
consultarCNPJBothTests(r) ==
    /\ r = nreq + 1
    /\ LET cnpjLimpo == limparCNPJ(cnpjInput) IN
       IF Len(cnpjLimpo) = 0 /\ ~ validarCNPJ(cnpjLimpo)
       THEN /\ resultsDiv' =
                 [EmptyDiv EXCEPT !.kind = "error", !.msg = "Por favor, digite um CNPJ."]
            /\ lastOp' = Op("consultarCNPJ", 0, "none", "rejected")
            /\ UNCHANGED <<cnpjInput, loadingDiv, nreq, ctx, adapter, events>>
       ELSE /\ resultsDiv' = EmptyDiv
            /\ loadingDiv' = "block"
            /\ nreq' = r
            /\ ctx' = [ctx EXCEPT ![r] = NewCtx]
            /\ adapter' = [adapter EXCEPT ![r] =
                  [a \in Apis |-> [IdleAdapter EXCEPT !.pc = "fetch", !.attempt = 1]]]
            /\ lastOp' = Op("consultarCNPJ", r, "none", "launched")
            /\ UNCHANGED <<cnpjInput, events>>

\* consultarCNPJ that starts CNPJ.A alone and leaves the other two adapters
\* to be started later.
consultarCNPJAwaitFirst(r) ==
    /\ r = nreq + 1
    /\ LET cnpjLimpo == limparCNPJ(cnpjInput) IN
       IF Len(cnpjLimpo) = 0 \/ ~ validarCNPJ(cnpjLimpo)
       THEN /\ resultsDiv' =
                 [EmptyDiv EXCEPT !.kind = "error",
                                  !.msg = IF Len(cnpjLimpo) = 0
                                          THEN "Por favor, digite um CNPJ."
                                          ELSE "CNPJ invalido!"]
            /\ lastOp' = Op("consultarCNPJ", 0, "none", "rejected")
            /\ UNCHANGED <<cnpjInput, loadingDiv, nreq, ctx, adapter, events>>
       ELSE /\ resultsDiv' = EmptyDiv
            /\ loadingDiv' = "block"
            /\ nreq' = r
            /\ ctx' = [ctx EXCEPT ![r] = NewCtx]
            /\ adapter' = [adapter EXCEPT ![r]["CNPJA"] =
                  [IdleAdapter EXCEPT !.pc = "fetch", !.attempt = 1]]
            /\ lastOp' = Op("consultarCNPJ", r, "none", "launched")
            /\ UNCHANGED <<cnpjInput, events>>

\* consultarCNPJ() up to its return: validation, then the closure state and
\* the three adapter calls, each of which runs to its first await (the fetch).
consultarCNPJ(r) ==
    /\ r = nreq + 1
    /\ LET cnpjLimpo == limparCNPJ(cnpjInput) IN
       IF Len(cnpjLimpo) = 0 \/ ~ validarCNPJ(cnpjLimpo)
       THEN /\ resultsDiv' =
                 [EmptyDiv EXCEPT !.kind = "error",
                                  !.msg = IF Len(cnpjLimpo) = 0
                                          THEN "Por favor, digite um CNPJ."
                                          ELSE "CNPJ invalido!"]
            /\ lastOp' = Op("consultarCNPJ", 0, "none", "rejected")
            /\ UNCHANGED <<cnpjInput, loadingDiv, nreq, ctx, adapter, events>>
       ELSE /\ resultsDiv' = EmptyDiv
            /\ loadingDiv' = "block"
            /\ nreq' = r
            /\ ctx' = [ctx EXCEPT ![r] = NewCtx]
            /\ adapter' = [adapter EXCEPT ![r] =
                  [a \in Apis |-> [IdleAdapter EXCEPT !.pc = "fetch", !.attempt = 1]]]
            /\ lastOp' = Op("consultarCNPJ", r, "none", "launched")
            /\ UNCHANGED <<cnpjInput, events>>

(* ----------------------------- the adapters --------------------------- *)

\* What one fetch can come back with: the fetch rejects ("throw"), the
\* response is not ok ("notok"), the body cannot be decoded ("undecodable"),
\* or the body decodes to a payload ("ok").
Responses(payloads) ==
    { [t |-> k, body |-> Null] : k \in {"throw", "notok", "undecodable"} }
    \cup { [t |-> "ok", body |-> p] : p \in payloads }

\* The statements of an attempt that can throw: the fetch itself ("throw") and
\* the decoding of the body, response.json() / JSON.parse ("undecodable").
ThrowSites == {"throw", "undecodable"}

\* TryCovers with the decoding of the body outside the try block.
TryCoversFetchOnly(api) == {"throw"}

\* The throwing statements that lie inside the try block of adapter api: in
\* all three functions both the fetch and the decoding do.
TryCovers(api) == {"throw", "undecodable"}

\* The exception of this response leaves the async function uncaught.
Escapes(api, resp) == resp.t \in ThrowSites \ TryCovers(api)

\* consultarCNPJA_API: one attempt; response.json() when ok, else null.
CnpjaResult(resp) == IF resp.t = "ok" THEN resp.body ELSE Null

consultarCNPJA_API(r) ==
    /\ adapter[r]["CNPJA"].pc = "fetch"
    /\ \E resp \in Responses(CnpjaPayloads \cup {Null}) :
         /\ adapter' = [adapter EXCEPT ![r]["CNPJA"] =
                           IF Escapes("CNPJA", resp) THEN [@ EXCEPT !.pc = "rejected"]
                           ELSE [@ EXCEPT !.pc = "resolved", !.result = CnpjaResult(resp)]]
         /\ lastOp' = FetchOp(r, "CNPJA", resp.t, resp.body)
    /\ UNCHANGED <<cnpjInput, resultsDiv, loadingDiv, nreq, ctx, events>>

\* RetryStep whose loop test is attempt <= maxRetries + 1.
RetryStepOffByOne(a, good, data, maxRetries) ==
    IF good THEN [a EXCEPT !.pc = "resolved", !.result = data]
    ELSE IF a.attempt < maxRetries + 1
         THEN [a EXCEPT !.pc = "delay", !.delays = @ + 1]
         ELSE [a EXCEPT !.pc = "resolved", !.result = Null]

\* RetryStep that waits after every attempt, the successful one included.
RetryStepDelayAlways(a, good, data, maxRetries) ==
    IF good THEN [a EXCEPT !.pc = "resolved", !.result = data, !.delays = @ + 1]
    ELSE IF a.attempt < maxRetries
         THEN [a EXCEPT !.pc = "delay", !.delays = @ + 1]
         ELSE [a EXCEPT !.pc = "resolved", !.result = Null]

\* RetryStep that also waits after the last allowed attempt has failed.
RetryStepDelayAfterLast(a, good, data, maxRetries) ==
    IF good THEN [a EXCEPT !.pc = "resolved", !.result = data]
    ELSE IF a.attempt < maxRetries
         THEN [a EXCEPT !.pc = "delay", !.delays = @ + 1]
         ELSE [a EXCEPT !.pc = "resolved", !.result = Null, !.delays = @ + 1]

\* One pass of a retry loop after the fetch of the current attempt came back:
\* return the data when the attempt is good; otherwise wait before the next
\* attempt, or leave the loop and return null after the last one.
RetryStep(a, good, data, maxRetries) ==
    IF good THEN [a EXCEPT !.pc = "resolved", !.result = data]
    ELSE IF a.attempt < maxRetries
         THEN [a EXCEPT !.pc = "delay", !.delays = @ + 1]
         ELSE [a EXCEPT !.pc = "resolved", !.result = Null]

\* ReceitaWsGood without the test of the embedded status.
ReceitaWsGoodNoStatusTest(resp) == resp.t = "ok"

\* result.status !== "ERROR" on an ok response whose contents parse
ReceitaWsGood(resp) == resp.t = "ok" /\ resp.body.status # "ERROR"

consultarReceitaWS(r) ==
    /\ adapter[r]["ReceitaWS"].pc = "fetch"
    /\ \E resp \in Responses(ReceitaWsPayloads \cup {ReceitaWsErrorPayload}) :
         /\ adapter' = [adapter EXCEPT ![r]["ReceitaWS"] =
                           IF Escapes("ReceitaWS", resp) THEN [@ EXCEPT !.pc = "rejected"]
                           ELSE RetryStep(@, ReceitaWsGood(resp), resp.body, MAX_RETRIES_RECEITAWS)]
         /\ lastOp' = FetchOp(r, "ReceitaWS",
                         IF resp.t = "ok" /\ ~ ReceitaWsGood(resp) THEN "errorpayload" ELSE resp.t,
                         resp.body)
    /\ UNCHANGED <<cnpjInput, resultsDiv, loadingDiv, nreq, ctx, events>>

\* result && result.cnpj on an ok response whose contents parse
MinhaReceitaGood(resp) == resp.t = "ok" /\ ~ Falsy(resp.body) /\ resp.body.cnpj # "undef"

consultarMinhaReceitaAPI(r) ==
    /\ adapter[r]["MinhaReceita"].pc = "fetch"
    /\ \E resp \in Responses(MinhaReceitaPayloads \cup {MinhaReceitaInvalidPayload, Null}) :
         /\ adapter' = [adapter EXCEPT ![r]["MinhaReceita"] =
                           IF Escapes("MinhaReceita", resp) THEN [@ EXCEPT !.pc = "rejected"]
                           ELSE RetryStep(@, MinhaReceitaGood(resp), resp.body, MAX_RETRIES_MINHARECEITA)]
         /\ lastOp' = FetchOp(r, "MinhaReceita",
                         IF resp.t = "ok" /\ ~ MinhaReceitaGood(resp) THEN "errorpayload" ELSE resp.t,
                         resp.body)
    /\ UNCHANGED <<cnpjInput, resultsDiv, loadingDiv, nreq, ctx, events>>

\* delay(RETRY_DELAY_MS) elapses: the loop increments attempt and fetches again.
delay(r, api) ==
    /\ adapter[r][api].pc = "delay"
    /\ adapter' = [adapter EXCEPT ![r][api] = [@ EXCEPT !.pc = "fetch", !.attempt = @ + 1]]
    /\ lastOp' = Op("delay", r, api, "none")
    /\ UNCHANGED <<cnpjInput, resultsDiv, loadingDiv, nreq, ctx, events>>

(* ------------------------- the .then handlers ------------------------- *)

World(r) == [ctx |-> ctx[r], resultsDiv |-> resultsDiv, loadingDiv |-> loadingDiv,
             events |-> events[r]]

Handler(w, r, api, data) ==
    CASE api = "CNPJA" -> handleCnpjaResponse(w, r, data)
      [] api = "ReceitaWS" -> handleReceitaWsResponse(w, r, data)
      [] api = "MinhaReceita" -> handleMinhaReceitaResponse(w, r, data)

\* Then whose handlers keep their state in one place shared by all requests,
\* the state of the newest request.
ThenGlobalState(r, api) ==
    /\ adapter[r][api].pc = "resolved"
    /\ LET w == Handler(World(nreq), r, api, adapter[r][api].result) IN
         /\ ctx' = [ctx EXCEPT ![nreq] = w.ctx]
         /\ resultsDiv' = w.resultsDiv
         /\ loadingDiv' = w.loadingDiv
         /\ events' = [events EXCEPT ![nreq] = w.events]
    /\ adapter' = [adapter EXCEPT ![r][api].pc = "handled"]
    /\ lastOp' = Op("then", r, api,
                    IF Falsy(adapter[r][api].result) THEN "failure" ELSE "success")
    /\ UNCHANGED <<cnpjInput, nreq>>

\* Then whose callback returns at once when a newer request has been submitted.
ThenIfCurrent(r, api) ==
    /\ adapter[r][api].pc = "resolved"
    /\ LET w == IF r = nreq THEN Handler(World(r), r, api, adapter[r][api].result)
                ELSE World(r)
       IN  /\ ctx' = [ctx EXCEPT ![r] = w.ctx]
           /\ resultsDiv' = w.resultsDiv
           /\ loadingDiv' = w.loadingDiv
           /\ events' = [events EXCEPT ![r] = w.events]
    /\ adapter' = [adapter EXCEPT ![r][api].pc = "handled"]
    /\ lastOp' = Op("then", r, api,
                    IF Falsy(adapter[r][api].result) THEN "failure" ELSE "success")
    /\ UNCHANGED <<cnpjInput, nreq>>

\* The callback registered with .then runs with the adapter's resolved value.
Then(r, api) ==
    /\ adapter[r][api].pc = "resolved"
    /\ LET w == Handler(World(r), r, api, adapter[r][api].result) IN
         /\ ctx' = [ctx EXCEPT ![r] = w.ctx]
         /\ resultsDiv' = w.resultsDiv
         /\ loadingDiv' = w.loadingDiv
         /\ events' = [events EXCEPT ![r] = w.events]
    /\ adapter' = [adapter EXCEPT ![r][api].pc = "handled"]
    /\ lastOp' = Op("then", r, api,
                    IF Falsy(adapter[r][api].result) THEN "failure" ELSE "success")
    /\ UNCHANGED <<cnpjInput, nreq>>

(* ---------------------------- specifications -------------------------- *)

\* One request: the user types and submits until a submission passes
\* validation; that request then runs to the end.
Next ==
    \/ TypeInput(1)
    \/ consultarCNPJ(1)
    \/ consultarCNPJA_API(1)
    \/ consultarReceitaWS(1)
    \/ consultarMinhaReceitaAPI(1)
    \/ \E api \in {"ReceitaWS", "MinhaReceita"} : delay(1, api)
    \/ \E api \in Apis : Then(1, api)

Spec == Init /\ [][Next]_vars

\* One request in which every fetch comes back, every delay elapses and every
\* resolved promise has its handler run.  Each provider has one record here
\* and a fetch fails in one way only (response not ok).
LiveFetch(api) ==
    /\ lastOp'.kind \in {"ok", "notok"}
    /\ lastOp'.kind = "ok" => lastOp'.body.api = api
    /\ lastOp'.kind = "ok" => lastOp'.body \in
          { [Null EXCEPT !.api = "CNPJA", !.company_simei_optant = "false",
                         !.company_simples_optant = "false", !.registrations = <<"RJ">>,
                         !.address_state = "SP"],
            [Null EXCEPT !.api = "ReceitaWS", !.status = "OK", !.simei_optante = "false",
                         !.simples_optante = "true", !.uf = "RJ"],
            [Null EXCEPT !.api = "MinhaReceita", !.cnpj = "present",
                         !.opcao_pelo_mei = "false", !.opcao_pelo_simples = "false"] }

FetchCnpja == consultarCNPJA_API(1) /\ LiveFetch("CNPJA")

FetchReceitaWs == consultarReceitaWS(1) /\ LiveFetch("ReceitaWS")

FetchMinhaReceita == consultarMinhaReceitaAPI(1) /\ LiveFetch("MinhaReceita")

NextLive ==
    \/ TypeInput(1)
    \/ consultarCNPJ(1)
    \/ FetchCnpja
    \/ FetchReceitaWs
    \/ FetchMinhaReceita
    \/ \E api \in {"ReceitaWS", "MinhaReceita"} : delay(1, api)
    \/ \E api \in Apis : Then(1, api)

\* Then(1, api) is enabled exactly while the adapter stands at "resolved" and
\* is the only step that moves it on, so weak fairness of the handler is
\* stated on that position: the adapter does not stay at "resolved" forever.
Fairness ==
    /\ WF_vars(FetchCnpja)
    /\ WF_vars(FetchReceitaWs)
    /\ WF_vars(FetchMinhaReceita)
    /\ \A api \in {"ReceitaWS", "MinhaReceita"} : WF_vars(delay(1, api))
    /\ \A api \in Apis : []<>(adapter[1][api].pc # "resolved")

SpecLive == Init /\ [][NextLive]_vars /\ Fairness

\* Two overlapping requests: the user submits the same valid field a second
\* time while the first request is in flight.  Nothing in consultarCNPJ stops
\* or detaches the adapters and handlers of the first request.  To keep the
\* state space small each provider has one record here, a fetch fails in one
\* way only (response not ok), and only fetches of the first request fail.
OverlapRecord(api) ==
    CASE api = "CNPJA" ->
           [Null EXCEPT !.api = "CNPJA", !.company_simei_optant = "false",
                        !.company_simples_optant = "false", !.registrations = <<"RJ">>,
                        !.address_state = "SP"]
      [] api = "ReceitaWS" ->
           [Null EXCEPT !.api = "ReceitaWS", !.status = "OK", !.simei_optante = "false",
                        !.simples_optante = "true", !.uf = "RJ"]
      [] api = "MinhaReceita" ->
           [Null EXCEPT !.api = "MinhaReceita", !.cnpj = "present",
                        !.opcao_pelo_mei = "false", !.opcao_pelo_simples = "false"]

\* The fetch that has just come back is one of those.
OverlapFetch(r, api) ==
    /\ lastOp'.kind \in {"ok", "notok"}
    /\ lastOp'.kind = "ok" => lastOp'.body = OverlapRecord(api)
    /\ r = 2 => lastOp'.kind = "ok"

NextOverlap ==
    \/ TypeInput(1)
    \/ \E r \in {1, 2} : consultarCNPJ(r)
    \/ \E r \in {1, 2} : consultarCNPJA_API(r) /\ OverlapFetch(r, "CNPJA")
    \/ \E r \in {1, 2} : consultarReceitaWS(r) /\ OverlapFetch(r, "ReceitaWS")
    \/ \E r \in {1, 2} : consultarMinhaReceitaAPI(r) /\ OverlapFetch(r, "MinhaReceita")
    \/ \E api \in {"ReceitaWS", "MinhaReceita"} : delay(1, api)
    \/ \E r \in {1, 2} : \E api \in Apis : Then(r, api)

SpecOverlap == Init /\ [][NextOverlap]_vars

\* The validation alone: the user types identifiers and submits until one
\* passes; the adapters it launches are left where they start.
NextValidator ==
    \/ TypeIdentifier(1)
    \/ consultarCNPJ(1)

SpecValidator == Init /\ [][NextValidator]_vars

(* ------------------------- vocabulary of the claims ------------------- *)

\* Priority of a label: SIMEI > Simples > Normal > Outros.
Rank(label) ==
    CASE label = "SIMEI" -> 4 [] label = "Simples" -> 3
      [] label = "Normal" -> 2 [] OTHER -> 1

\* The votes of request r, in arrival order.
Votes(r) == RegimesOf(ctx[r].taxRegimeConsensus)

\* The events of one type that request r has sent.
EventsOf(r, type) == SelectSeq(events[r], LAMBDA e : e.type = type)

NonAuthoritative == {"CNPJA", "MinhaReceita"}

\* The handler of api has run for request r, with a record / with null.
Succeeded(r, api) == adapter[r][api].pc = "handled" /\ ~ Falsy(adapter[r][api].result)

Failed(r, api) == adapter[r][api].pc = "handled" /\ Falsy(adapter[r][api].result)

\* The current state was produced by the handler of api receiving a record.
JustSucceeded(r, api) ==
    lastOp.op = "then" /\ lastOp.r = r /\ lastOp.api = api /\ lastOp.kind = "success"

(* -------------------------------- claims ------------------------------ *)

\* C1: after every vote arrival, confirmed is the highest-priority label that
\* occurs anywhere in the vote sequence, whatever the counts of the other
\* labels; a sequence containing SIMEI has confirmed = SIMEI, and the single
\* vote [SIMEI] gives confirmed = SIMEI with needsWarning = FALSE.
C1_ConfirmedIsHighestPriority ==
    \A r \in Requests :
      LET votes == Votes(r)
          c == ctx[r].taxRegimeConsensus
      IN  Len(votes) >= 1 =>
            /\ \E i \in 1..Len(votes) : votes[i] = c.confirmed
            /\ \A i \in 1..Len(votes) : Rank(votes[i]) <= Rank(c.confirmed)
            /\ ((\E i \in 1..Len(votes) : votes[i] = "SIMEI") => c.confirmed = "SIMEI")
            /\ (votes = <<"SIMEI">> => c.confirmed = "SIMEI" /\ ~ c.needsWarning)

\* Two Normal votes arrived before one SIMEI vote: the single SIMEI vote wins.
C1_Witness ==
    /\ Votes(1) = <<"Normal", "Normal", "SIMEI">>
    /\ ctx[1].taxRegimeConsensus.confirmed = "SIMEI"

\* C2: after every vote arrival, needsWarning is true exactly when the votes
\* equal to confirmed are not more than the votes different from it;
\* [Simples, Normal] and [Normal, Normal, Simples] both give confirmed =
\* Simples with needsWarning = TRUE.
C2_NeedsAttentionIffNotMajority ==
    \A r \in Requests :
      LET votes == Votes(r)
          c == ctx[r].taxRegimeConsensus
          agree == {i \in 1..Len(votes) : votes[i] = c.confirmed}
          dissent == {i \in 1..Len(votes) : votes[i] # c.confirmed}
      IN  Len(votes) >= 1 =>
            /\ c.needsWarning <=> (Cardinality(agree) <= Cardinality(dissent))
            /\ (votes = <<"Simples", "Normal">> => c.confirmed = "Simples" /\ c.needsWarning)
            /\ (votes = <<"Normal", "Normal", "Simples">> =>
                    c.confirmed = "Simples" /\ c.needsWarning)

C2_Witness ==
    /\ Votes(1) = <<"Normal", "Normal", "Simples">>
    /\ ctx[1].taxRegimeConsensus.needsWarning

\* C3: when ReceitaWS succeeds after a non-authoritative provider produced the
\* initial render, the request renders a second time, from the ReceitaWS
\* record and without the preliminary notice; the arrival is not handled as a
\* supplementary merge alone.
C3_AuthoritativeOverridesPreliminary ==
    \A r \in Requests :
      LET renders == EventsOf(r, "InitialRender") IN
      (/\ Succeeded(r, "ReceitaWS")
       /\ \E i \in 1..Len(renders) : renders[i].api \in NonAuthoritative)
      => /\ Len(renders) = 2
         /\ renders[1].api \in NonAuthoritative
         /\ renders[2].api = "ReceitaWS"
         /\ renders[2].flag = FALSE
         /\ resultsDiv.kind = "card"
         /\ resultsDiv.src = "ReceitaWS"
         /\ resultsDiv.warning = FALSE

\* ReceitaWS has just arrived on top of MinhaReceita's preliminary card.
C3_Witness ==
    /\ JustSucceeded(1, "ReceitaWS")
    /\ Len(EventsOf(1, "InitialRender")) = 2
    /\ EventsOf(1, "InitialRender")[1].api = "MinhaReceita"
    /\ EventsOf(1, "InitialRender")[1].flag = TRUE

\* C4: AllSourcesFailed is sent at most once per request, and exactly once
\* when all three adapters have failed, whatever the order of the failures.
C4_AllSourcesFailedExactlyOnce ==
    \A r \in Requests :
      /\ Len(EventsOf(r, "AllSourcesFailed")) <= 1
      /\ (\A api \in Apis : Failed(r, api)) => Len(EventsOf(r, "AllSourcesFailed")) = 1

\* All three failed, CNPJ.A (the adapter with a single attempt) last.
C4_Witness ==
    /\ \A api \in Apis : Failed(1, api)
    /\ lastOp.op = "then" /\ lastOp.api = "CNPJA"
    /\ Len(EventsOf(1, "AllSourcesFailed")) = 1

\* C5: AllSourcesFailed is sent only when the failure counter is 3 and nothing
\* was rendered; a request in which an adapter succeeded never sends it.
C5_AllSourcesFailedOnlyWhenAllFailed ==
    \A r \in Requests :
      Len(EventsOf(r, "AllSourcesFailed")) >= 1 =>
        /\ ctx[r].failedApiCount = 3
        /\ ~ ctx[r].hasRendered
        /\ Len(EventsOf(r, "InitialRender")) = 0
        /\ \A api \in Apis : adapter[r][api].pc \in {"resolved", "handled"} =>
                                Falsy(adapter[r][api].result)

C5_Witness ==
    /\ resultsDiv.kind = "error"
    /\ resultsDiv.msg = "Todas as fontes de dados falharam."
    /\ ctx[1].failedApiCount = 3
    /\ loadingDiv = "none"

\* C6: a non-authoritative provider that succeeds while nothing is rendered
\* and ReceitaWS has not arrived renders the full view and marks the
\* preliminary-data notice; every initial render by a non-authoritative
\* provider carries the notice.
C6_NonAuthoritativeRenderIsPreliminary ==
    \A r \in Requests :
      LET renders == EventsOf(r, "InitialRender") IN
      /\ \A i \in 1..Len(renders) :
            renders[i].api \in NonAuthoritative => renders[i].flag = TRUE
      /\ (resultsDiv.kind = "card" /\ resultsDiv.by = r
            /\ resultsDiv.src \in NonAuthoritative) => resultsDiv.warning = TRUE

\* C7: a non-authoritative success that arrives after a render merges CNPJ.A's
\* state-registration list into the visible card without a full re-render,
\* whichever provider produced that card.
C7_LateCnpjaMergesRegistrations ==
    \A r \in Requests :
      LET renders == EventsOf(r, "InitialRender")
          regs == ctx[r].cnpjaDataCache.registrations
      IN  (/\ JustSucceeded(r, "CNPJA")
           /\ Len(renders) >= 1
           /\ \A i \in 1..Len(renders) : renders[i].api # "CNPJA")
          => /\ resultsDiv.kind = "card"
             /\ Len(regs) > 0 => (resultsDiv.ie.content = "list"
                                   /\ resultsDiv.ie.registrations = regs)
             /\ Len(regs) = 0 => resultsDiv.ie.content = "none"

\* C8: the non-authoritative providers produce at most one full render per
\* request: when both succeed before ReceitaWS, the first to arrive renders
\* and the second does not; a request has at most two full renders, and a
\* second one is ReceitaWS's.
C8_AtMostOneNonAuthoritativeRender ==
    \A r \in Requests :
      LET renders == EventsOf(r, "InitialRender")
          sources == ctx[r].taxRegimeConsensus.sources
      IN  /\ Cardinality({i \in 1..Len(renders) : renders[i].api \in NonAuthoritative}) <= 1
          /\ Len(renders) <= 2
          /\ Len(renders) = 2 => renders[2].api = "ReceitaWS"
          /\ (/\ Succeeded(r, "CNPJA") /\ Succeeded(r, "MinhaReceita")
              /\ adapter[r]["ReceitaWS"].pc # "handled")
             => /\ Len(renders) = 1
                /\ renders[1].api = sources[1].api

\* CNPJ.A has just arrived second, on top of MinhaReceita's card.
C8_Witness ==
    /\ JustSucceeded(1, "CNPJA")
    /\ Succeeded(1, "MinhaReceita")
    /\ adapter[1]["ReceitaWS"].pc # "handled"
    /\ resultsDiv.src = "MinhaReceita"
    /\ Len(EventsOf(1, "InitialRender")) = 1

\* C9: every success of ReceitaWS renders the full view from its record,
\* whatever arrived before, and in the same step shows CNPJ.A's registration
\* list when CNPJ.A's record has already arrived, highlighted by the uf field
\* of the ReceitaWS record.
C9_AuthoritativeRendersAndMerges ==
    \A r \in Requests :
      LET renders == EventsOf(r, "InitialRender")
          regs == ctx[r].cnpjaDataCache.registrations
      IN  JustSucceeded(r, "ReceitaWS") =>
            /\ resultsDiv.kind = "card"
            /\ resultsDiv.src = "ReceitaWS"
            /\ resultsDiv.by = r
            /\ resultsDiv.tax = getTaxRegimeInfo(ctx[r].taxRegimeConsensus)
            /\ Len(renders) >= 1
            /\ renders[Len(renders)].api = "ReceitaWS"
            /\ (Succeeded(r, "CNPJA") /\ Len(regs) > 0) =>
                  resultsDiv.ie = [ content |-> "list", registrations |-> regs,
                                    mainState |-> adapter[r]["ReceitaWS"].result.uf ]
            /\ (Succeeded(r, "CNPJA") /\ Len(regs) = 0) => resultsDiv.ie.content = "none"

\* ReceitaWS (uf RJ) has just arrived after CNPJ.A (address.state SP).
C9_Witness ==
    /\ JustSucceeded(1, "ReceitaWS")
    /\ Succeeded(1, "CNPJA")
    /\ ctx[1].cnpjaDataCache.address_state = "SP"
    /\ resultsDiv.ie.content = "list"
    /\ resultsDiv.ie.mainState = "RJ"

\* C10: a submission whose identifier is empty or fails validation shows the
\* validation message in that step and launches nothing: no adapter starts a
\* fetch and no closure state is created.
C10_InvalidSubmissionLaunchesNothing ==
    [][ (/\ lastOp'.op = "consultarCNPJ"
         /\ (Len(limparCNPJ(cnpjInput)) = 0 \/ ~ validarCNPJ(cnpjInput)))
        => /\ resultsDiv'.kind = "error"
           /\ resultsDiv'.msg \in {"Por favor, digite um CNPJ.", "CNPJ invalido!"}
           /\ adapter' = adapter
           /\ ctx' = ctx
           /\ nreq' = nreq
           /\ events' = events
           /\ loadingDiv' = loadingDiv ]_vars

\* A typed identifier of 14 digits with a wrong check digit was rejected.
C10_Witness ==
    /\ lastOp.op = "consultarCNPJ"
    /\ lastOp.kind = "rejected"
    /\ Len(limparCNPJ(cnpjInput)) = 14
    /\ resultsDiv.msg = "CNPJ invalido!"
    /\ \A r \in Requests : \A api \in Apis : adapter[r][api].pc = "idle"

\* The attempt budget of each adapter.
Budget(api) ==
    CASE api = "CNPJA" -> 1
      [] api = "ReceitaWS" -> MAX_RETRIES_RECEITAWS
      [] api = "MinhaReceita" -> MAX_RETRIES_MINHARECEITA

\* The records an adapter can return as Success.
Records(api) ==
    CASE api = "CNPJA" -> CnpjaPayloads
      [] api = "ReceitaWS" -> ReceitaWsPayloads
      [] api = "MinhaReceita" -> MinhaReceitaPayloads

\* The current state was produced by a fetch of (r, api) coming back.
JustFetched(r, api) == lastOp.op = "fetch" /\ lastOp.r = r /\ lastOp.api = api

FailureKinds == {"throw", "notok", "undecodable", "errorpayload"}

\* C11: every adapter query resolves to one value, a record (Success) or null
\* (Failure), and never raises: a transport failure, a non-ok response, an
\* undecodable body and an error payload all leave the adapter waiting for the
\* next attempt or resolved, and resolved with null once the budget is used up.
C11_AdapterAlwaysResolves ==
    \A r \in Requests : \A api \in Apis :
      LET a == adapter[r][api] IN
      /\ a.pc # "rejected"
      /\ a.pc \in {"resolved", "handled"} => (Falsy(a.result) \/ a.result \in Records(api))
      /\ a.pc \in {"idle", "fetch", "delay"} => Falsy(a.result)
      /\ (JustFetched(r, api) /\ lastOp.kind \in FailureKinds) =>
            /\ a.pc \in {"delay", "resolved"}
            /\ a.pc = "resolved" <=> a.attempt = Budget(api)
            /\ a.pc = "resolved" => Falsy(a.result)

\* ReceitaWS used its whole budget; the last body could not be decoded.
C11_Witness ==
    /\ JustFetched(1, "ReceitaWS")
    /\ lastOp.kind = "undecodable"
    /\ adapter[1]["ReceitaWS"].attempt = 3
    /\ adapter[1]["ReceitaWS"].pc = "resolved"
    /\ Falsy(adapter[1]["ReceitaWS"].result)

\* C12 as stated: the adapter of the authoritative provider, ReceitaWS, makes
\* at most one attempt and never waits; the two non-authoritative adapters
\* make at most 3 and at most 2 attempts.
C12_AuthoritativeSingleAttempt ==
    \A r \in Requests :
      /\ adapter[r]["ReceitaWS"].attempt <= 1
      /\ adapter[r]["ReceitaWS"].delays = 0
      /\ \E a, b \in NonAuthoritative :
            /\ a # b
            /\ adapter[r][a].attempt <= 3
            /\ adapter[r][b].attempt <= 2

\* C12 amended: ReceitaWS, the authoritative provider, makes at most 3
\* attempts; CNPJ.A makes at most 1 and never waits; MinhaReceita makes at most
\* 2; between two consecutive attempts there is exactly one delay.
C12_AttemptBudgets ==
    \A r \in Requests :
      /\ adapter[r]["ReceitaWS"].attempt <= 3
      /\ adapter[r]["CNPJA"].attempt <= 1
      /\ adapter[r]["CNPJA"].delays = 0
      /\ adapter[r]["CNPJA"].pc # "delay"
      /\ adapter[r]["MinhaReceita"].attempt <= 2
      /\ \A api \in Apis :
            adapter[r][api].pc = "fetch" => adapter[r][api].delays = adapter[r][api].attempt - 1

\* ReceitaWS is in its third attempt, after two delays.
C12_Witness ==
    /\ adapter[1]["ReceitaWS"].pc = "fetch"
    /\ adapter[1]["ReceitaWS"].attempt = 3
    /\ adapter[1]["ReceitaWS"].delays = 2
    /\ adapter[1]["MinhaReceita"].attempt = 2

\* C13: when attempts 1 and 2 of ReceitaWS (budget 3) fail and attempt 3 comes
\* back with a well-formed payload without the error status, the adapter
\* resolves with that payload, after exactly 3 attempts and 2 delays.
C13_ThirdAttemptSucceeds ==
    \A r \in Requests :
      LET a == adapter[r]["ReceitaWS"] IN
      (/\ JustFetched(r, "ReceitaWS")
       /\ lastOp.kind = "ok"
       /\ a.attempt = 3)
      => /\ a.pc = "resolved"
         /\ ~ Falsy(a.result)
         /\ a.result = lastOp.body
         /\ a.result.status # "ERROR"
         /\ a.delays = 2

C13_Witness ==
    /\ JustFetched(1, "ReceitaWS")
    /\ lastOp.kind = "ok"
    /\ adapter[1]["ReceitaWS"].attempt = 3
    /\ adapter[1]["ReceitaWS"].result.uf = "RJ"
    /\ adapter[1]["ReceitaWS"].delays = 2

\* C14: while a retrying adapter has budget left, a transport failure, a
\* non-ok response and an ok response with an error payload each put it in the
\* wait before the next attempt and resolve nothing; no adapter ever resolves
\* with a payload that carries the error status.
C14_FailedAttemptRetries ==
    \A r \in Requests :
      /\ \A api \in {"ReceitaWS", "MinhaReceita"} :
            LET a == adapter[r][api] IN
            (/\ JustFetched(r, api)
             /\ lastOp.kind \in {"throw", "notok", "errorpayload"}
             /\ a.attempt < Budget(api))
            => /\ a.pc = "delay"
               /\ Falsy(a.result)
               /\ a.delays = a.attempt
      /\ \A api \in Apis : adapter[r][api].result.status # "ERROR"
      /\ Falsy(adapter[r]["MinhaReceita"].result)
            \/ adapter[r]["MinhaReceita"].result.cnpj # "undef"

\* The first attempt of ReceitaWS came back ok with status ERROR.
C14_Witness ==
    /\ JustFetched(1, "ReceitaWS")
    /\ lastOp.kind = "errorpayload"
    /\ lastOp.body.status = "ERROR"
    /\ adapter[1]["ReceitaWS"].attempt = 1
    /\ adapter[1]["ReceitaWS"].pc = "delay"

\* C15: with zero votes arrived the consensus shows as Outros, the label
\* getTaxRegimeInfo gives to the still-undetermined confirmed, and
\* needsWarning is false.
C15_ZeroVotesIsOutros ==
    \A r \in Requests :
      Len(Votes(r)) = 0 =>
        /\ ctx[r].taxRegimeConsensus.needsWarning = FALSE
        /\ Rank(ctx[r].taxRegimeConsensus.confirmed) = Rank("Outros")
        /\ getTaxRegimeInfo(ctx[r].taxRegimeConsensus) = [text |-> "Trib: Outros", icon |-> FALSE]

\* Two providers have failed and no vote has arrived.
C15_Witness ==
    /\ ctx[1].live
    /\ Len(Votes(1)) = 0
    /\ Failed(1, "CNPJA")
    /\ Failed(1, "ReceitaWS")
    /\ getTaxRegimeInfo(ctx[1].taxRegimeConsensus).text = "Trib: Outros"

\* The votes that carry a label other than the default one.
NonDefault(votes) == SelectSeq(votes, LAMBDA v : v # "Outros")

\* C16: a vote for the default label Outros is counted on neither side of the
\* needsWarning comparison, and Outros is the classification only when zero
\* votes have arrived.
C16_DefaultVoteNotCounted ==
    \A r \in Requests :
      LET c == ctx[r].taxRegimeConsensus IN
      /\ Len(NonDefault(Votes(r))) > 0 =>
            c.needsWarning = NeedsWarningOf(NonDefault(Votes(r)), c.confirmed)
      /\ c.confirmed = "Outros" => Len(Votes(r)) = 0

\* The events that a step appended to the events of request r.
NewEvents(r) == SubSeq(events'[r], Len(events[r]) + 1, Len(events'[r]))

C18_ConsensusIsFunctionOfVotes ==
    \A r \in Requests :
      LET c == ctx[r].taxRegimeConsensus
          votes == Votes(r)
          n == Len(votes)
      IN  /\ n = 0 => (c.confirmed = "null" /\ ~ c.needsWarning)
          /\ n > 0 =>
                /\ \E i \in 1..n : votes[i] = c.confirmed
                /\ \A i \in 1..n : Rank(votes[i]) <= Rank(c.confirmed)
                /\ c.needsWarning <=> 2 * CountOf(votes, c.confirmed) <= n

\* The bar showed Normal without warning, then Simples with the warning, then
\* Simples without: confirmed changed and needsWarning went from false to true
\* and back to false.
C18_Witness ==
    /\ Votes(1) = <<"Normal", "Simples", "Simples">>
    /\ \E i, j, k \in 1..Len(events[1]) :
          /\ i < j /\ j < k
          /\ events[1][i].tax = [text |-> "Trib: Normal", icon |-> FALSE]
          /\ events[1][j].tax = [text |-> "Simples", icon |-> TRUE]
          /\ events[1][k].tax = [text |-> "Simples", icon |-> FALSE]

\* C19: a valid submission starts all three adapters at once: a request has
\* either none or all three of its adapters started, right after the
\* submission all three await their first fetch, and no handler has run.
C19_AllAdaptersStartTogether ==
    \A r \in Requests :
      /\ r > nreq => \A api \in Apis : adapter[r][api] = IdleAdapter
      /\ r <= nreq => \A api \in Apis :
            adapter[r][api].pc # "idle" /\ adapter[r][api].attempt >= 1
      /\ (lastOp.op = "consultarCNPJ" /\ lastOp.r = r) =>
            /\ \A api \in Apis :
                  adapter[r][api] = [IdleAdapter EXCEPT !.pc = "fetch", !.attempt = 1]
            /\ ctx[r] = NewCtx
            /\ events[r] = <<>>

\* The adapter with the largest budget was handled first and the one with a
\* single attempt last.
C19_Witness ==
    /\ Len(ctx[1].taxRegimeConsensus.sources) = 3
    /\ ctx[1].taxRegimeConsensus.sources[1].api = "ReceitaWS"
    /\ ctx[1].taxRegimeConsensus.sources[2].api = "MinhaReceita"
    /\ ctx[1].taxRegimeConsensus.sources[3].api = "CNPJA"
    /\ adapter[1]["ReceitaWS"].attempt = 3

\* C20: once a second request has been submitted, a resolution of the first
\* still runs its handler on the shared view: a record of ReceitaWS renders the
\* first request's card over whatever is shown, a first non-authoritative
\* record does so too, a late CNPJ.A record writes its registrations into the
\* card on screen even when the second request rendered it, and the third
\* failure replaces the view with the all-sources-failed message.
C20_StaleHandlerStillActs ==
    [][\A api \in Apis :
          (lastOp'.op = "then" /\ lastOp'.r = 1 /\ lastOp'.api = api /\ nreq = 2)
          => LET data == adapter[1][api].result IN
             /\ adapter'[1][api].pc = "handled"
             /\ ~ Falsy(data) =>
                   Len(ctx'[1].taxRegimeConsensus.sources)
                      = Len(ctx[1].taxRegimeConsensus.sources) + 1
             /\ (~ Falsy(data) /\ api = "ReceitaWS") =>
                   /\ resultsDiv'.kind = "card"
                   /\ resultsDiv'.by = 1
                   /\ resultsDiv'.src = "ReceitaWS"
             /\ (~ Falsy(data) /\ api \in NonAuthoritative /\ ~ ctx[1].hasRendered
                   /\ Falsy(ctx[1].receitaWsDataCache)) =>
                   /\ resultsDiv'.kind = "card"
                   /\ resultsDiv'.by = 1
                   /\ resultsDiv'.src = api
             /\ (~ Falsy(data) /\ api = "CNPJA" /\ ~ Falsy(ctx[1].receitaWsDataCache)
                   /\ resultsDiv.ieContainer) =>
                   /\ resultsDiv'.by = resultsDiv.by
                   /\ resultsDiv'.ie = gerarIEHTML(data.registrations,
                                                   ctx[1].receitaWsDataCache.uf)
             /\ (Falsy(data) /\ ctx[1].failedApiCount = TOTAL_APIS - 1) =>
                   /\ resultsDiv'.kind = "error"
                   /\ resultsDiv'.msg = "Todas as fontes de dados falharam."
                   /\ loadingDiv' = "none"
      ]_vars

\* The second request had rendered its ReceitaWS card; then the first
\* request's ReceitaWS record arrived and its card replaced it.
C20_Witness ==
    /\ nreq = 2
    /\ JustSucceeded(1, "ReceitaWS")
    /\ Succeeded(2, "ReceitaWS")
    /\ Len(EventsOf(2, "InitialRender")) >= 1
    /\ resultsDiv.kind = "card"
    /\ resultsDiv.by = 1
    /\ Len(EventsOf(1, "InitialRender")) = 1

\* The weights of the modulo-11 procedure for the first and the second check
\* digit of a CNPJ.
Weights1 == <<5, 4, 3, 2, 9, 8, 7, 6, 5, 4, 3, 2>>

Weights2 == <<6, 5, 4, 3, 2, 9, 8, 7, 6, 5, 4, 3, 2>>

RECURSIVE WeightedSum(_, _, _)
WeightedSum(d, w, k) ==
    IF k > Len(w) THEN 0 ELSE parseInt(d[k]) * w[k] + WeightedSum(d, w, k + 1)

\* The check digit the procedure computes from the digits d under weights w.
CheckDigit(d, w) ==
    LET m == WeightedSum(d, w, 1) % 11 IN IF m < 2 THEN 0 ELSE 11 - m

\* The digits left of a string after stripping everything else.
DigitsOf(s) == SelectSeq(s, LAMBDA c : c \in Digits)

\* The identifier with the digit at position k of its digits replaced by c.
WithDigit(d, k, c) == [d EXCEPT ![k] = c]

\* C21: the validator rejects every input that has not exactly 14 digits after
\* stripping and every input of 14 identical digits; any other input it accepts
\* exactly when its 13th and 14th digits are the two computed check digits, so
\* a valid identifier with either check digit changed is rejected; and a
\* submission launches the adapters exactly when the validator accepts.
C21_ValidatorIsChecksum ==
    LET d == DigitsOf(cnpjInput) IN
    /\ Len(d) # 14 => ~ validarCNPJ(cnpjInput)
    /\ (Len(d) = 14 /\ \A i \in 1..14 : d[i] = d[1]) => ~ validarCNPJ(cnpjInput)
    /\ (Len(d) = 14 /\ \E i \in 1..14 : d[i] # d[1]) =>
          (validarCNPJ(cnpjInput) <=>
              /\ parseInt(d[13]) = CheckDigit(d, Weights1)
              /\ parseInt(d[14]) = CheckDigit(d, Weights2))
    /\ validarCNPJ(cnpjInput) =>
          \A k \in {13, 14} : \A c \in Digits \ {d[k]} : ~ validarCNPJ(WithDigit(d, k, c))
    /\ lastOp.op = "consultarCNPJ" =>
          (lastOp.kind = "launched" <=> validarCNPJ(cnpjInput))

\* The identifier with the right first and a wrong second check digit was
\* submitted and rejected.
C21_Witness ==
    /\ lastOp.op = "consultarCNPJ"
    /\ lastOp.kind = "rejected"
    /\ DigitsOf(cnpjInput) = <<"1","1","2","2","2","3","3","3","0","0","0","1","8","7">>
    /\ resultsDiv.kind = "error"

\* What the tax-regime bar shows for the consensus of the votes `votes`.
DisplayOf(votes) ==
    getTaxRegimeInfo([ sources |-> <<>>, confirmed |-> ConfirmedOf(votes),
                       needsWarning |-> NeedsWarningOf(votes, ConfirmedOf(votes)) ])

\* C22: the vote of an arriving record is recorded before the render decision:
\* every full render was made by a provider whose vote is in the sequence, and
\* it displayed the consensus of the votes up to and including that vote.
C22_RenderIncludesOwnVote ==
    \A r \in Requests :
      LET votes == Votes(r)
          src == ctx[r].taxRegimeConsensus.sources
      IN  \A i \in 1..Len(events[r]) :
            events[r][i].type = "InitialRender" =>
              \E k \in 1..Len(src) :
                /\ src[k].api = events[r][i].api
                /\ events[r][i].tax = DisplayOf(SubSeq(votes, 1, k))

\* ReceitaWS voted third, for SIMEI against two votes for Normal, and its
\* render showed SIMEI with the warning.
C22_Witness ==
    /\ Votes(1) = <<"Normal", "Normal", "SIMEI">>
    /\ ctx[1].taxRegimeConsensus.sources[3].api = "ReceitaWS"
    /\ JustSucceeded(1, "ReceitaWS")
    /\ \E i \in 1..Len(events[1]) :
          /\ events[1][i].type = "InitialRender"
          /\ events[1][i].api = "ReceitaWS"
          /\ events[1][i].tax = [text |-> "S I M E I", icon |-> TRUE]

\* C23: the closure state of a request changes only in the step that creates
\* it and in the handlers of its own three adapters; every step of another
\* request leaves it as it was.
C23_RequestStateIsOwned ==
    [][\A r \in Requests :
          /\ ctx'[r] # ctx[r] =>
                /\ lastOp'.r = r
                /\ lastOp'.op \in {"consultarCNPJ", "then"}
          /\ (lastOp'.r # r) => ctx'[r] = ctx[r]
      ]_vars

\* A handler of the first request has just recorded a vote while the second
\* request holds two votes of its own.
C23_Witness ==
    /\ nreq = 2
    /\ JustSucceeded(1, "MinhaReceita")
    /\ Len(Votes(1)) = 1
    /\ ctx[1].hasRendered
    /\ Len(Votes(2)) = 2
    /\ Falsy(ctx[2].minhaReceitaDataCache)

\* The label of a record read in its provider's own shape: opcao_pelo_mei and
\* opcao_pelo_simples (MinhaReceita), simei.optante and simples.optante
\* (ReceitaWS), company.simei.optant and company.simples.optant (CNPJ.A).
NativeLabel(data) ==
    LET mei == CASE data.api = "MinhaReceita" -> data.opcao_pelo_mei
                 [] data.api = "ReceitaWS" -> data.simei_optante
                 [] OTHER -> data.company_simei_optant
        simples == CASE data.api = "MinhaReceita" -> data.opcao_pelo_simples
                     [] data.api = "ReceitaWS" -> data.simples_optante
                     [] OTHER -> data.company_simples_optant
    IN  IF mei = "true" THEN "SIMEI"
        ELSE IF simples = "true" THEN "Simples"
        ELSE IF simples = "false" THEN "Normal"
        ELSE "Outros"

\* A record that has only the fields its provider delivers: ReceitaWS names
\* the option simples.optante and has no simples.optant.
NativeShape(data) == data.simples_optant = "undef"

\* C24: the vote of every record is the label of its provider's own shape:
\* SIMEI for a MEI opt-in, else Simples for a Simples opt-in, else Normal for
\* an explicit Simples non-opt-in, else Outros.
C24_VoteIsNativeLabel ==
    \A r \in Requests :
      LET src == ctx[r].taxRegimeConsensus.sources IN
      \A k \in 1..Len(src) :
        NativeShape(adapter[r][src[k].api].result) =>
          src[k].regime = NativeLabel(adapter[r][src[k].api].result)

\* What holds of a retrying adapter in every state.
RetryDiscipline(a, budget) ==
    /\ a.attempt <= budget
    /\ a.pc = "fetch" => a.delays = a.attempt - 1
    /\ a.pc = "delay" => (a.delays = a.attempt /\ a.attempt < budget)
    /\ a.pc \in {"resolved", "handled"} =>
          /\ a.delays = a.attempt - 1
          /\ Falsy(a.result) => a.attempt = budget

\* C25: ReceitaWS and MinhaReceita wait only between two attempts: never after
\* a successful attempt, never after the last allowed one; the attempts never
\* exceed the budget, an exhausted adapter has waited budget - 1 times, and a
\* resolved adapter makes no further attempt and waits no more.
C25_DelaysOnlyBetweenAttempts ==
    [][\A r \in Requests : \A api \in {"ReceitaWS", "MinhaReceita"} :
          /\ RetryDiscipline(adapter'[r][api], Budget(api))
          /\ adapter[r][api].pc \in {"resolved", "handled"} =>
                /\ adapter'[r][api].attempt = adapter[r][api].attempt
                /\ adapter'[r][api].delays = adapter[r][api].delays
                /\ adapter'[r][api].result = adapter[r][api].result
                /\ adapter'[r][api].pc \in {"resolved", "handled"}
      ]_vars

\* MinhaReceita is exhausted after 2 attempts and 1 delay; ReceitaWS resolved
\* with a record at its second attempt after 1 delay, and other steps followed.
C25_Witness ==
    /\ adapter[1]["MinhaReceita"].pc = "handled"
    /\ Falsy(adapter[1]["MinhaReceita"].result)
    /\ adapter[1]["MinhaReceita"].attempt = 2
    /\ adapter[1]["MinhaReceita"].delays = 1
    /\ adapter[1]["ReceitaWS"].pc = "handled"
    /\ ~ Falsy(adapter[1]["ReceitaWS"].result)
    /\ adapter[1]["ReceitaWS"].attempt = 2
    /\ adapter[1]["ReceitaWS"].delays = 1

\* Request r is over: its three handlers have run, the loading indicator is
\* gone, and the view is a card if some adapter delivered a record and the
\* all-sources-failed message if none did.
Settled(r) ==
    /\ \A api \in Apis : adapter[r][api].pc = "handled"
    /\ loadingDiv = "none"
    /\ (\E api \in Apis : Succeeded(r, api)) =>
          (resultsDiv.kind = "card" /\ resultsDiv.by = r)
    /\ (\A api \in Apis : Failed(r, api)) =>
          (resultsDiv.kind = "error" /\ resultsDiv.msg = "Todas as fontes de dados falharam.")

\* C26: when every fetch and every delay completes, a valid request ends: all
\* three adapters resolve and are handled, the loading indicator goes away,
\* and the view is a card when at least one adapter succeeded and the
\* all-sources-failed message when none did.
C26_RequestSettles == (nreq = 1) ~> Settled(1)

\* ReceitaWS and MinhaReceita failed first, then CNPJ.A delivered a record and
\* its card is the final view.
C26_Witness ==
    /\ Settled(1)
    /\ Failed(1, "ReceitaWS")
    /\ Failed(1, "MinhaReceita")
    /\ JustSucceeded(1, "CNPJA")
    /\ resultsDiv.src = "CNPJA"
    /\ ctx[1].failedApiCount = 2

\* The three handlers of request r have run.
AllHandled(r) == \A api \in Apis : adapter[r][api].pc = "handled"

\* The labels the code extracts from the records that request r received,
\* as a function of the provider and not of the order of arrival.
LabelOf(r, api) == getTaxRegimeFromData(adapter[r][api].result)

Voters(r) == {api \in Apis : Succeeded(r, api)}

\* The view that the outcomes of request r call for when ReceitaWS succeeded:
\* the card of ReceitaWS without the preliminary notice, the bar showing the
\* highest-priority label among the records received, with the warning when
\* its voters do not outnumber the others, and CNPJ.A's registrations when
\* CNPJ.A delivered any.
ViewOfOutcomes(r) ==
    LET top == CHOOSE a \in Voters(r) : \A b \in Voters(r) : Rank(LabelOf(r, b)) <= Rank(LabelOf(r, a))
        confirmed == LabelOf(r, top)
        agree == Cardinality({a \in Voters(r) : LabelOf(r, a) = confirmed})
        tax == getTaxRegimeInfo([ sources |-> <<>>, confirmed |-> confirmed,
                                  needsWarning |-> 2 * agree <= Cardinality(Voters(r)) ])
        regs == adapter[r]["CNPJA"].result.registrations
        ie == IF Succeeded(r, "CNPJA") /\ Len(regs) > 0
              THEN [content |-> "list", registrations |-> regs,
                    mainState |-> adapter[r]["ReceitaWS"].result.uf]
              ELSE NoneFoundIE
    IN  [ kind |-> "card", msg |-> "", src |-> "ReceitaWS", by |-> r, tax |-> tax,
          warning |-> FALSE, ieContainer |-> TRUE, ie |-> ie ]

\* C27: when ReceitaWS delivered a record and all three handlers have run, the
\* view is determined by the three outcomes alone, whatever the order in
\* which they arrived.
C27_FinalViewIsOrderIndependent ==
    \A r \in Requests :
      (AllHandled(r) /\ Succeeded(r, "ReceitaWS")) => resultsDiv = ViewOfOutcomes(r)

\* ReceitaWS arrived first, MinhaReceita second and CNPJ.A, with a
\* registration, last.
C27_Witness ==
    /\ AllHandled(1)
    /\ Len(ctx[1].taxRegimeConsensus.sources) = 3
    /\ ctx[1].taxRegimeConsensus.sources[1].api = "ReceitaWS"
    /\ ctx[1].taxRegimeConsensus.sources[3].api = "CNPJA"
    /\ Votes(1) = <<"Simples", "Normal", "SIMEI">>
    /\ resultsDiv.ie.content = "list"
    /\ resultsDiv.tax = [text |-> "S I M E I", icon |-> TRUE]

\* C28: the card says that no state registration was found only once CNPJ.A
\* has resolved, as a failure or with an empty list.
C28_NoneFoundOnlyAfterCnpja ==
    \A r \in Requests :
      (resultsDiv.kind = "card" /\ resultsDiv.by = r /\ resultsDiv.ie = NoneFoundIE) =>
        /\ adapter[r]["CNPJA"].pc \in {"resolved", "handled"}
        /\ \/ Falsy(adapter[r]["CNPJA"].result)
           \/ Len(adapter[r]["CNPJA"].result.registrations) = 0

\* The orders in which n votes can arrive.
Orders(n) == {p \in [1..n -> 1..n] : \A i, j \in 1..n : p[i] = p[j] => i = j}

\* C29: the consensus held for the votes recorded so far is the one that
\* every other order of arrival of the same votes gives: same confirmed label,
\* same needsWarning.
C29_ConsensusIsOrderIndependent ==
    \A r \in Requests :
      LET votes == Votes(r)
          n == Len(votes)
          c == ctx[r].taxRegimeConsensus
      IN  n > 0 =>
            \A p \in Orders(n) :
              LET pv == [i \in 1..n |-> votes[p[i]]] IN
              /\ ConfirmedOf(pv) = c.confirmed
              /\ NeedsWarningOf(pv, ConfirmedOf(pv)) = c.needsWarning

\* Three different votes, the highest-priority one in the middle.
C29_Witness ==
    /\ Votes(1) = <<"Normal", "SIMEI", "Simples">>
    /\ ctx[1].taxRegimeConsensus.confirmed = "SIMEI"
    /\ ctx[1].taxRegimeConsensus.needsWarning

\* C30: no step lowers the priority of the confirmed label of a request.
C30_ConfirmedPriorityNeverDrops ==
    [][\A r \in Requests :
          Rank(ctx'[r].taxRegimeConsensus.confirmed) >= Rank(ctx[r].taxRegimeConsensus.confirmed)
      ]_vars

\* SIMEI was voted first; a vote for Normal and then one for Outros arrived
\* and confirmed is still SIMEI.
C30_Witness ==
    /\ lastOp.op = "then"
    /\ lastOp.kind = "success"
    /\ Votes(1) = <<"SIMEI", "Normal", "Outros">>
    /\ ctx[1].taxRegimeConsensus.confirmed = "SIMEI"

====
